---- MODULE Spec2Model ----
(***************************************************************************)
(* The scheduler of the AgentBridge CLI: ModelIntegration (rate-limit      *)
(* budgets, preemptive throttle, retry/backoff, usage ledger), the SQLite  *)
(* cache middleware and SemanticEnricher's bounded-concurrency dispatcher. *)
(*                                                                         *)
(* JavaScript runs one continuation at a time: an action of this module is *)
(* the code that runs between two suspension points (await on a timer, on  *)
(* the network, or on an already settled promise).                         *)
(***************************************************************************)
EXTENDS Integers, Sequences, FiniteSets, TLC

(***************************************************************************)
(* Bounds of the model.                                                    *)
(***************************************************************************)
MaxTasks == 2          \* endpoints.length is drawn from 0..MaxTasks
MaxConcurrency == 2    \* the concurrency argument is drawn from -1..MaxConcurrency
MaxRetryCeiling == 1   \* options.maxRateLimitRetries is drawn from 0..MaxRetryCeiling
NumContents == 2       \* distinct endpoint contents (two endpoints with the same
                       \* content produce the same JSON.stringify(params))

(***************************************************************************)
(* Program constants.                                                      *)
(***************************************************************************)
MAX_SAFE_INTEGER == 2000000000  \* Number.MAX_SAFE_INTEGER (2^53 - 1), cut to the
                                \* range of TLC's integers; it is only compared
                                \* with and decremented by token estimates
WindowMs == 60000               \* "now + 60000": one minute
WaitCapMs == 60000              \* Math.min(waitTimeMs, 60000)
BackoffCapSeconds == 60         \* Math.min(60, ...)
SafetyMarginMs == 500           \* retryDelaySeconds += 0.5

Max(a, b) == IF a >= b THEN a ELSE b
Min(a, b) == IF a <= b THEN a ELSE b

RECURSIVE Pow2(_)
Pow2(n) == IF n <= 0 THEN 1 ELSE 2 * Pow2(n - 1)

Models == {"claude-3-7-sonnet-latest", "claude-3-5-haiku-latest"}

(***************************************************************************)
(* PRICING, in units of 10^-8 dollars per token (3.0 / 1_000_000 dollars   *)
(* is 300 units), so that costs are exact integers.                        *)
(***************************************************************************)
PRICING ==
  [m \in Models |->
     IF m = "claude-3-7-sonnet-latest"
     THEN [input |-> 300, output |-> 1500, cacheWrite |-> 375, cacheRead |-> 30]
     ELSE [input |-> 80, output |-> 400, cacheWrite |-> 100, cacheRead |-> 8]]

(***************************************************************************)
(* Rate-limit headers.  A header object is a record whose domain is the    *)
(* set of headers present; values are the numbers parseInt(.., 10) and     *)
(* new Date(..).getTime() read from the (well-formed) header strings.      *)
(***************************************************************************)
Has(h, f) == f \in DOMAIN h

\* A response may carry no header object at all (undefined).
NoHeaders == [present |-> FALSE, h |-> <<>>]
SomeHeaders(h) == [present |-> TRUE, h |-> h]

SubWindow(l, r, t) == [limit |-> l, remaining |-> r, resetTime |-> t]

createUninitializedBudget(t) ==
  LET resetTime == t + WindowMs IN
  [requests     |-> SubWindow(MAX_SAFE_INTEGER, MAX_SAFE_INTEGER, resetTime),
   inputTokens  |-> SubWindow(MAX_SAFE_INTEGER, MAX_SAFE_INTEGER, resetTime),
   outputTokens |-> SubWindow(MAX_SAFE_INTEGER, MAX_SAFE_INTEGER, resetTime),
   initialized  |-> FALSE]

\* parseResetTime: the header's time, or now + 60000 when the header is absent.
parseResetTime(h, f, t) == IF Has(h, f) THEN h[f] ELSE t + WindowMs

\* (mutant: a reservation made before survives the update)
UpdateSubWindowKeepingReservation(old, h, fl, fr, ft, t) ==
  IF Has(h, fl) /\ Has(h, fr)
  THEN SubWindow(h[fl], Min(old.remaining, h[fr]), parseResetTime(h, ft, t))
  ELSE old

\* (mutant: a category the headers do not carry is reset to its limit)
UpdateSubWindowAlways(old, h, fl, fr, ft, t) ==
  IF Has(h, fl) /\ Has(h, fr)
  THEN SubWindow(h[fl], h[fr], parseResetTime(h, ft, t))
  ELSE SubWindow(old.limit, old.limit, parseResetTime(h, ft, t))

\* One category of updateRateLimitBudgets: overwritten only when both the
\* limit and the remaining header are present.
UpdateSubWindow(old, h, fl, fr, ft, t) ==
  IF Has(h, fl) /\ Has(h, fr)
  THEN SubWindow(h[fl], h[fr], parseResetTime(h, ft, t))
  ELSE old

\* (mutant: one budget object shared by the models)
StoreBudgetShared(budgets, modelName, budget) == [m \in DOMAIN budgets |-> budget]

\* this.rateLimitBudgets[modelName] = budget
StoreBudget(budgets, modelName, budget) == [budgets EXCEPT ![modelName] = budget]

\* updateRateLimitBudgets(modelName, headers) on the whole budget table.
updateRateLimitBudgets(budgets, modelName, hdr, t) ==
  IF ~hdr.present THEN budgets
  ELSE
    LET budget == budgets[modelName]
        h == hdr.h
        nb == [requests |->
                 UpdateSubWindow(budget.requests, h, "requests-limit",
                                 "requests-remaining", "requests-reset", t),
               inputTokens |->
                 UpdateSubWindow(budget.inputTokens, h, "input-tokens-limit",
                                 "input-tokens-remaining", "input-tokens-reset", t),
               outputTokens |->
                 UpdateSubWindow(budget.outputTokens, h, "output-tokens-limit",
                                 "output-tokens-remaining", "output-tokens-reset", t),
               initialized |-> TRUE]
    IN StoreBudget(budgets, modelName, nb)

\* (mutant: an expired window is reset to the placeholder's capacity)
RollToPlaceholder(sw, t) ==
  IF sw.resetTime <= t
  THEN SubWindow(sw.limit, MAX_SAFE_INTEGER, t + WindowMs) ELSE sw

\* (mutant: a window that ends exactly now is not yet reset)
RollLate(sw, t) ==
  IF sw.resetTime < t THEN SubWindow(sw.limit, sw.limit, t + WindowMs) ELSE sw

\* The rollover of one sub-window at the head of checkRateLimitBudget.
Roll(sw, t) ==
  IF sw.resetTime <= t THEN SubWindow(sw.limit, sw.limit, t + WindowMs) ELSE sw

\* The reason string, built from the failing constraints in order.
Reason(fr, fi, fo) ==
  LET r1 == IF fr THEN "Request limit reached" ELSE ""
      r2 == IF fi
            THEN (IF r1 # "" THEN r1 \o ", input token limit"
                             ELSE "Input token limit reached")
            ELSE r1
  IN IF fo
     THEN (IF r2 # "" THEN r2 \o ", output token limit"
                      ELSE "Output token limit reached")
     ELSE r2

\* (mutant: a threshold of one unit is kept back)
FailsAtOrBelow(remaining, needed) == remaining <= needed

\* (mutant: no constraint ever fails)
FailsNever(remaining, needed) == FALSE

\* budget.requests.remaining < 1, budget.inputTokens.remaining < estimated...
Fails(remaining, needed) == remaining < needed

\* (mutant: nothing is taken from the counter)
ReserveNothing(remaining, amount) == remaining

\* Math.max(0, remaining - amount)
Reserve(remaining, amount) == Max(0, remaining - amount)

\* (mutant: the early return is never taken)
NoBudgetDataIgnored(budget) == FALSE

\* if (!budget || !budget.initialized)
NoBudgetData(budget) == ~budget.initialized

\* checkRateLimitBudget(modelName, estimatedInputTokens, estimatedOutputTokens):
\* the answer and the budget table it leaves behind.
checkRateLimitBudget(budgets, modelName, estIn, estOut, t) ==
  LET budget == budgets[modelName] IN
  IF NoBudgetData(budget)
  THEN [budgets |-> budgets, shouldWait |-> FALSE, waitTimeMs |-> 0,
        reason |-> "No rate limit data yet"]
  ELSE
    LET rq == Roll(budget.requests, t)
        it == Roll(budget.inputTokens, t)
        ot == Roll(budget.outputTokens, t)
        fr == Fails(rq.remaining, 1)
        fi == Fails(it.remaining, estIn)
        fo == Fails(ot.remaining, estOut)
        w1 == IF fr THEN Max(0, rq.resetTime - t) ELSE 0
        w2 == IF fi THEN Max(w1, it.resetTime - t) ELSE w1
        waitTimeMs == IF fo THEN Max(w2, ot.resetTime - t) ELSE w2
        nb == IF waitTimeMs = 0
              THEN [requests |-> [rq EXCEPT !.remaining = Reserve(@, 1)],
                    inputTokens |-> [it EXCEPT !.remaining = Reserve(@, estIn)],
                    outputTokens |-> [ot EXCEPT !.remaining = Reserve(@, estOut)],
                    initialized |-> TRUE]
              ELSE [requests |-> rq, inputTokens |-> it, outputTokens |-> ot,
                    initialized |-> TRUE]
    IN [budgets |-> StoreBudget(budgets, modelName, nb),
        shouldWait |-> waitTimeMs > 0,
        waitTimeMs |-> Min(waitTimeMs, WaitCapMs),
        reason |-> Reason(fr, fi, fo)]

(***************************************************************************)
(* The usage ledger.                                                       *)
(***************************************************************************)
InitialUsage ==
  [promptTokens |-> 0, completionTokens |-> 0, cost |-> 0,
   cachedRequests |-> 0, liveRequests |-> 0,
   cacheCreationTokens |-> 0, cacheReadTokens |-> 0,
   costWithoutCaching |-> 0, cachingSavings |-> 0,
   rateLimitRetries |-> 0, preemptiveDelays |-> 0]

\* (mutant: the difference taken the other way round)
CachingSavingsReversed(costWithoutCaching, cost) == cost - costWithoutCaching

\* const cachingSavings = costWithoutCaching - this.usage.cost
CachingSavings(costWithoutCaching, cost) == costWithoutCaching - cost

\* PRICING[modelName] of a model the table does not have: undefined.
NoPricing == [none |-> TRUE]

\* (mutant: a model without prices is charged as the light model)
PricingOrLight(modelName) ==
  IF modelName \in DOMAIN PRICING
  THEN PRICING[modelName] ELSE PRICING["claude-3-5-haiku-latest"]

\* const pricing = PRICING[modelName as keyof typeof PRICING]
Pricing(modelName) ==
  IF modelName \in DOMAIN PRICING THEN PRICING[modelName] ELSE NoPricing

\* (mutant: the record of a call is lost)
updateUsageLost(u, modelName, promptTokens, completionTokens, fromCache, cct, crt) ==
  u

\* updateUsage(modelName, promptTokens, completionTokens, fromCache,
\*             cacheCreationTokens, cacheReadTokens): if (!pricing) return.
updateUsage(u, modelName, promptTokens, completionTokens, fromCache, cct, crt) ==
  IF Pricing(modelName) = NoPricing THEN u
  ELSE
    LET pricing == Pricing(modelName)
        pt == u.promptTokens + promptTokens
        ct == u.completionTokens + completionTokens
        cost == u.cost + promptTokens * pricing.input
                       + completionTokens * pricing.output
                       + cct * pricing.cacheWrite + crt * pricing.cacheRead
        costWithoutCaching == pt * pricing.input + ct * pricing.output
    IN [u EXCEPT !.promptTokens = pt,
                 !.completionTokens = ct,
                 !.cachedRequests = IF fromCache THEN @ + 1 ELSE @,
                 !.liveRequests = IF fromCache THEN @ ELSE @ + 1,
                 !.cacheCreationTokens = @ + cct,
                 !.cacheReadTokens = @ + crt,
                 !.cost = cost,
                 !.costWithoutCaching = costWithoutCaching,
                 !.cachingSavings = CachingSavings(costWithoutCaching, cost)]

(***************************************************************************)
(* Errors, by what generateObject's catch block reads of them.             *)
(***************************************************************************)
ErrorRec(name, retryError, apiCallError, has429, hasRateLimit, hdr) ==
  [name |-> name, retryError |-> retryError, apiCallError |-> apiCallError,
   has429 |-> has429, hasRateLimit |-> hasRateLimit, responseHeaders |-> hdr]

\* What better-sqlite3 or JSON.parse throws inside the cache manager.
CacheIOError == ErrorRec("SqliteError", FALSE, FALSE, FALSE, FALSE, NoHeaders)

\* What handleRateLimit throws at the ceiling: a plain Error.
RetriesExhausted ==
  ErrorRec("Rate limit exceeded", FALSE, FALSE, FALSE, TRUE, NoHeaders)

\* (mutant: every exhausted SDK retry taken for a rate limit)
IsRateLimitErrorAnyMessage(e) == e.retryError /\ e.apiCallError

\* error instanceof RetryError && error.lastError instanceof APICallError &&
\* (message.includes("429") || message.includes("rate limit"))
IsRateLimitError(e) ==
  e.retryError /\ e.apiCallError /\ (e.has429 \/ e.hasRateLimit)

(***************************************************************************)
(* handleRateLimit.                                                        *)
(***************************************************************************)
\* (mutant: the retry-after header never looked at)
HasRetryAfterIgnored(e) == FALSE

\* headers && headers["retry-after"]
HasRetryAfter(e) ==
  e.responseHeaders.present /\ Has(e.responseHeaders.h, "retry-after")

\* The delay in ms: the hint (seconds) or min(60, (2^attempt * 1000 + jitter) / 1000),
\* plus 0.5 s.
BackoffDelayMs(e, retryAttempt, jitter) ==
  IF HasRetryAfter(e)
  THEN e.responseHeaders.h["retry-after"] * 1000 + SafetyMarginMs
  ELSE Min(BackoffCapSeconds * 1000, Pow2(retryAttempt) * 1000 + jitter)
       + SafetyMarginMs

\* (mutant: the ceiling compared with > instead of >=)
CeilingReachedLate(retryAttempt, ceiling) == retryAttempt > ceiling

\* retryAttempt >= this.maxRateLimitRetries
CeilingReached(retryAttempt, ceiling) == retryAttempt >= ceiling

\* (mutant: the counter incremented only when a retry follows)
handleRateLimitCountingRetries(u, budgets, e, retryAttempt, ceiling, modelName, jitter, t) ==
  IF CeilingReached(retryAttempt, ceiling)
  THEN [usage |-> u, budgets |-> budgets, thrown |-> TRUE, delayMs |-> 0]
  ELSE [usage |-> [u EXCEPT !.rateLimitRetries = @ + 1],
        budgets |-> IF HasRetryAfter(e)
                    THEN updateRateLimitBudgets(budgets, modelName,
                                                e.responseHeaders, t)
                    ELSE budgets,
        thrown |-> FALSE,
        delayMs |-> BackoffDelayMs(e, retryAttempt, jitter)]

\* handleRateLimit(error, retryAttempt, modelName): the counter is incremented
\* first; at the ceiling it throws; the budget is updated from the headers only
\* on the retry-after branch.
handleRateLimit(u, budgets, e, retryAttempt, ceiling, modelName, jitter, t) ==
  LET u2 == [u EXCEPT !.rateLimitRetries = @ + 1] IN
  IF CeilingReached(retryAttempt, ceiling)
  THEN [usage |-> u2, budgets |-> budgets, thrown |-> TRUE, delayMs |-> 0]
  ELSE [usage |-> u2,
        budgets |-> IF HasRetryAfter(e)
                    THEN updateRateLimitBudgets(budgets, modelName,
                                                e.responseHeaders, t)
                    ELSE budgets,
        thrown |-> FALSE,
        delayMs |-> BackoffDelayMs(e, retryAttempt, jitter)]

(***************************************************************************)
(* The requests SemanticEnricher issues for one endpoint, in order:        *)
(* description, parameters, responses.  All use the light model.           *)
(***************************************************************************)
Stages == {"description", "parameters", "responses"}

ModelName(stage) == "claude-3-5-haiku-latest"

RespMessageChars == 3000  \* total length of the messages of a responses request

\* estimatedInput = Math.ceil(estimate * 1.2), the estimate being the explicit
\* estimatedInputTokens or the sum of content.length / 3 over the messages.
EstimatedInput(stage) ==
  CASE stage = "description" -> (1200 * 12 + 9) \div 10
    [] stage = "parameters"  -> (1000 * 12 + 9) \div 10
    [] OTHER                 -> (RespMessageChars * 2 + 4) \div 5

\* estimatedOutputTokens || 500
EstimatedOutput(stage) ==
  CASE stage = "description" -> 400
    [] stage = "parameters"  -> 800
    [] OTHER                 -> 500

\* Endpoint contents: whether endpoint.parameters / endpoint.responses is empty.
Contents == 1..NumContents
HasParameters(c) == c % 2 = 1
HasResponses(c) == c % 3 = 0

\* cacheKey = JSON.stringify(params): the request of a stage for an endpoint.
CacheKey(stage, c) == <<stage, c>>
Keys == Stages \X Contents

(***************************************************************************)
(* The llm_cache table: at most one row per key.                           *)
(***************************************************************************)
NoRow == [absent |-> TRUE]
\* JSON.stringify(value) into the row, JSON.parse(row.value) out of it.
\* (the timestamp column is written and never read: it is left out)
Row(value) == [value |-> [json |-> value]]
Parse(row) == row.value.json

\* (mutant: the row is not written)
CacheSetDropped(cache, key, value) == cache

\* "INSERT OR REPLACE INTO llm_cache"
CacheSet(cache, key, value) == [cache EXCEPT ![key] = Row(value)]
\* get: the parsed value, or null without a row
CacheHit(cache, key) == cache[key] # NoRow

EmptyCache == [k \in Keys |-> NoRow]

\* get(key): row ? JSON.parse(row.value) : null
Null == [null |-> TRUE]
CacheGet(cache, key) == IF CacheHit(cache, key) THEN Parse(cache[key]) ELSE Null

\* clear(): DELETE FROM llm_cache
CacheClear(cache) == [k \in Keys |-> NoRow]

\* (mutant: the table is created anew by every process)
initDatabaseAnew(cache) == [k \in Keys |-> NoRow]

\* initDatabase(): CREATE TABLE IF NOT EXISTS llm_cache, on the file that the
\* process before left in os.tmpdir()
initDatabase(cache) == cache

\* No method was called on its own (n counts the calls and the clock ticks);
\* no value was set for a key.
NoCall == [op |-> "none", n |-> 0]
NoValue == [none |-> TRUE]
Opened(start) == [start |-> start, used |-> 0]
NoWindow ==
  [requests |-> Opened(MAX_SAFE_INTEGER), inputTokens |-> Opened(MAX_SAFE_INTEGER),
   outputTokens |-> Opened(MAX_SAFE_INTEGER)]

(***************************************************************************)
(* What the service answers.                                               *)
(***************************************************************************)
Result(hdr, pt, ct, cct, crt) ==
  [responseHeaders |-> hdr, promptTokens |-> pt, completionTokens |-> ct,
   cacheCreationInputTokens |-> cct, cacheReadInputTokens |-> crt]

NoResult == [none |-> TRUE]

\* All three categories, one request and little room left, reset in 5 s.
TightHeaders(t) ==
  SomeHeaders([h \in {"requests-limit", "requests-remaining", "requests-reset",
                      "input-tokens-limit", "input-tokens-remaining",
                      "input-tokens-reset", "output-tokens-limit",
                      "output-tokens-remaining", "output-tokens-reset"} |->
     CASE h = "requests-limit" -> 50
       [] h = "requests-remaining" -> 1
       [] h = "input-tokens-limit" -> 30000
       [] h = "input-tokens-remaining" -> 2000
       [] h = "output-tokens-limit" -> 10000
       [] h = "output-tokens-remaining" -> 1000
       [] OTHER -> t + 5000])

\* A 429 answer: requests exhausted, retry-after 1 s.
RejectHeaders(t) ==
  SomeHeaders([h \in {"requests-limit", "requests-remaining", "requests-reset",
                      "retry-after"} |->
     CASE h = "requests-limit" -> 50
       [] h = "requests-remaining" -> 0
       [] h = "retry-after" -> 1
       [] OTHER -> t + 1000])

SuccessResults(t) ==
  {Result(NoHeaders, 1200, 300, 100, 50), Result(TightHeaders(t), 1200, 300, 100, 50)}

\* What a warm cache holds: answers of an earlier run (their headers are old).
OldResult == Result(TightHeaders(0), 1200, 300, 100, 50)
WarmCache == [k \in Keys |-> Row(OldResult)]

ServiceErrors(t) ==
  {ErrorRec("429 with retry-after", TRUE, TRUE, TRUE, FALSE, RejectHeaders(t)),
   ErrorRec("rate limit, no headers", TRUE, TRUE, FALSE, TRUE, NoHeaders),
   ErrorRec("500 after the SDK's retry", TRUE, TRUE, FALSE, FALSE, NoHeaders)}

NoError == ErrorRec("", FALSE, FALSE, FALSE, FALSE, NoHeaders)

Jitters == {0}  \* Math.random() * 1000, in whole ms

(***************************************************************************)
(* State.                                                                  *)
(***************************************************************************)
VARIABLES
  cacheEnabled,         \* options.cacheEnabled: the cache middleware is installed
  maxRateLimitRetries,  \* this.maxRateLimitRetries
  store,                \* the SQLite file: "ok", "readonly" (set throws) or
                        \* "broken" (get and set throw)
  rateLimitBudgets,     \* this.rateLimitBudgets
  usage,                \* this.usage
  cache,                \* the llm_cache table (it outlives the process)
  cacheAtStart,         \* history: the table as the process found it
  now,                  \* Date.now()
  started,              \* processEndpointsWithConcurrency has been called
  returned,             \* ... and has returned
  exited,               \* process.exit(1) has been called
  concurrency,          \* its concurrency argument
  endpoints,            \* its endpoints argument: the content of each endpoint
  queue,                \* the unclaimed endpoints (their indices)
  inProgress,           \* Set<number> of the indices in progress
  completed,            \* the completed counter
  results,              \* the enhanced endpoints (their indices)
  wk,                   \* the processQueue() workers: position and locals
  claimed,              \* history: how many times each endpoint was shifted
  succeededKeys,        \* history: keys of the requests that returned a result
  call,                 \* history: the last method called on its own (the
                        \* method, its arguments, the state before, the answer)
  written,              \* history: per key, what the last set() not followed
                        \* by a clear() wrote
  window                \* history: per model and category, remaining at the
                        \* start of the window and the estimates admitted in it

vars == <<cacheEnabled, maxRateLimitRetries, store, rateLimitBudgets, usage,
          cache, cacheAtStart, now, started, returned, exited, concurrency,
          endpoints, queue, inProgress, completed, results, wk, claimed,
          succeededKeys, call, written, window>>

Workers == 1..(MaxConcurrency + 1)
Tasks == 1..MaxTasks

(***************************************************************************)
(* A worker: pc is where its processQueue() is suspended,                  *)
(*   "unstarted" | "finished"                                              *)
(*   "sleep"     await sleep(waitTimeMs), the preemptive delay             *)
(*   "inflight"  await doGenerate(), the call to the service               *)
(*   "respond"   a result is on its way back through the SDK               *)
(*   "caught"    an error is on its way to generateObject's catch          *)
(*   "backoff"   await sleep(waitTime), the backoff                        *)
(*   "rejected"  the error reached enhanceEndpoint's catch                 *)
(* task, stage and retryAttempt are the locals.  History of the current    *)
(* request: calls (doGenerate calls), rejections (rate-limit errors        *)
(* received), checks (checkRateLimitBudget consultations), attempts (calls *)
(* of the SDK's generateObject), reserved (the last throttle check         *)
(* decremented the budget),                                                *)
(* afterSuccess (a request with the same key had returned a result when    *)
(* this one began).                                                        *)
(***************************************************************************)
IdleWorker(pc) ==
  [pc |-> pc, task |-> 0, stage |-> "", retryAttempt |-> 0, wakeAt |-> 0,
   err |-> NoError, res |-> NoResult, fromCache |-> FALSE,
   calls |-> 0, rejections |-> 0, reserved |-> FALSE, afterSuccess |-> FALSE,
   checks |-> 0, attempts |-> 0]

\* The state the code mutates, as one record, so that code that runs in
\* sequence within one continuation composes.
Cur ==
  [budgets |-> rateLimitBudgets, usage |-> usage, cache |-> cache,
   exited |-> exited, endpoints |-> endpoints, queue |-> queue,
   inProgress |-> inProgress, completed |-> completed, results |-> results,
   wk |-> wk, claimed |-> claimed, succeededKeys |-> succeededKeys,
   cacheEnabled |-> cacheEnabled, store |-> store,
   ceiling |-> maxRateLimitRetries]

Commit(s) ==
  /\ rateLimitBudgets' = s.budgets
  /\ usage' = s.usage
  /\ cache' = s.cache
  /\ exited' = s.exited
  /\ endpoints' = s.endpoints
  /\ queue' = s.queue
  /\ inProgress' = s.inProgress
  /\ completed' = s.completed
  /\ results' = s.results
  /\ wk' = s.wk
  /\ claimed' = s.claimed
  /\ succeededKeys' = s.succeededKeys

KeyOf(s, w) == CacheKey(s.wk[w].stage, s.endpoints[s.wk[w].task])

(***************************************************************************)
(* The SDK's generateObject with the middleware: cacheMiddleware           *)
(* .wrapGenerate up to its await doGenerate().                             *)
(***************************************************************************)
\* doGenerate(): a call to the service.
IssueCall(s, w) ==
  [s EXCEPT !.wk[w].pc = "inflight", !.wk[w].calls = @ + 1]

\* cacheManager.get throws, finds the row, or finds none.
WrapGenerate(s, w) ==
  IF s.store = "broken"
  THEN [s EXCEPT !.wk[w].pc = "caught", !.wk[w].err = CacheIOError]
  ELSE IF CacheHit(s.cache, KeyOf(s, w))
       THEN [s EXCEPT !.wk[w].pc = "respond",
                      !.wk[w].res = Parse(s.cache[KeyOf(s, w)]),
                      !.wk[w].fromCache = TRUE]
       ELSE IssueCall(s, w)

\* const middlewares = options.cacheEnabled ? [cacheMiddleware] : []
SdkGenerateObject(s, w) ==
  LET s1 == [s EXCEPT !.wk[w].attempts = @ + 1]
  IN IF s.cacheEnabled THEN WrapGenerate(s1, w) ELSE IssueCall(s1, w)

(***************************************************************************)
(* ModelIntegration.generateObject, from the head of its while (true) loop *)
(* to its first suspension: the throttle check, then either the preemptive *)
(* sleep or the SDK call.                                                  *)
(***************************************************************************)
LoopTop(s, w, t) ==
  LET stage == s.wk[w].stage
      m == ModelName(stage)
      r == checkRateLimitBudget(s.budgets, m, EstimatedInput(stage),
                                EstimatedOutput(stage), t)
  IN IF r.shouldWait
     THEN [s EXCEPT !.budgets = r.budgets,
                    !.usage.preemptiveDelays = @ + 1,
                    !.wk[w].pc = "sleep",
                    !.wk[w].checks = @ + 1,
                    !.wk[w].reserved = FALSE,
                    !.wk[w].wakeAt = t + r.waitTimeMs]
     ELSE SdkGenerateObject(
            [s EXCEPT !.budgets = r.budgets,
                      !.wk[w].checks = @ + 1,
                      !.wk[w].reserved = s.budgets[m].initialized], w)

\* A call of generateObject: retryAttempt = 0, then the loop.
StartRequest(s, w, stage, t) ==
  LET key == CacheKey(stage, s.endpoints[s.wk[w].task])
      s1 == [s EXCEPT !.wk[w] =
               [IdleWorker("start") EXCEPT !.task = s.wk[w].task,
                                           !.stage = stage,
                                           !.afterSuccess = key \in s.succeededKeys]]
  IN LoopTop(s1, w, t)

(***************************************************************************)
(* processQueue: while (queue.length > 0) { shift; inProgress.add; await   *)
(* enhanceEndpoint }, which runs up to the first suspension of the         *)
(* description request.                                                    *)
(***************************************************************************)
\* (mutant: the head is read and left in the queue when others follow it)
PeekQueue(q) == [endpoint |-> Head(q), rest |-> IF Len(q) > 1 THEN q ELSE Tail(q)]

\* const endpoint = queue.shift()
ShiftQueue(q) == [endpoint |-> Head(q), rest |-> Tail(q)]

ProcessQueue(s, w, t) ==
  IF s.queue = <<>>
  THEN [s EXCEPT !.wk[w] = IdleWorker("finished")]
  ELSE LET sh == ShiftQueue(s.queue)
           s1 == [s EXCEPT !.queue = sh.rest,
                           !.inProgress = @ \cup {sh.endpoint},
                           !.claimed[sh.endpoint] = @ + 1,
                           !.wk[w].task = sh.endpoint]
       IN StartRequest(s1, w, "description", t)

\* while (queue.length > 0): the next turn of the loop of processQueue
LoopAgain(s, w, t) == ProcessQueue(s, w, t)

\* (mutant: the enhanced endpoint pushed at the front, over what is there)
TaskDoneResultOverwritten(s, w, t) ==
  LET task == s.wk[w].task
      s1 == [s EXCEPT !.results = <<task>>,
                      !.inProgress = @ \ {task},
                      !.completed = @ + 1]
  IN LoopAgain(s1, w, t)

\* (mutant: inProgress.delete(currentIndex) forgotten)
TaskDoneKeptInProgress(s, w, t) ==
  LET task == s.wk[w].task
      s1 == [s EXCEPT !.results = Append(@, task),
                      !.completed = @ + 1]
  IN LoopAgain(s1, w, t)

\* The try branch of processQueue after enhanceEndpoint returned, and the next
\* turn of its loop.
TaskDone(s, w, t) ==
  LET task == s.wk[w].task
      s1 == [s EXCEPT !.results = Append(@, task),
                      !.inProgress = @ \ {task},
                      !.completed = @ + 1]
  IN LoopAgain(s1, w, t)

\* enhanceEndpoint after enhanceParameters: enhanceResponses.
ToResponses(s, w, t) ==
  IF HasResponses(s.endpoints[s.wk[w].task])
  THEN StartRequest(s, w, "responses", t)
  ELSE TaskDone(s, w, t)

\* enhanceEndpoint after enhanceEndpointDescription: enhanceParameters.
ToParameters(s, w, t) ==
  IF HasParameters(s.endpoints[s.wk[w].task])
  THEN StartRequest(s, w, "parameters", t)
  ELSE ToResponses(s, w, t)

\* What follows a request of a stage that returned or fell back.
NextStage(s, w, t) ==
  CASE s.wk[w].stage = "description" -> ToParameters(s, w, t)
    [] s.wk[w].stage = "parameters"  -> ToResponses(s, w, t)
    [] OTHER                         -> TaskDone(s, w, t)

\* (mutant: i <= Math.min(...), one processQueue() too many)
WorkersToStartPlusOne(c, n) == Min(c, n) + 1

\* NaN, what parseInt makes of an option that is not a number: a value apart
\* from the numbers a concurrency can be.
NaN == -1000000

\* (mutant: one processQueue() started whatever the concurrency)
WorkersToStartAtLeastOne(c, n) == IF c = NaN THEN 1 ELSE Max(1, Min(c, n))

\* for (let i = 0; i < Math.min(concurrency, endpoints.length); i++): the
\* number of turns; Math.min(NaN, n) is NaN and 0 < NaN is false.
WorkersToStart(c, n) == IF c = NaN THEN 0 ELSE Min(c, n)

RECURSIVE StartWorkers(_, _, _, _)
StartWorkers(s, i, n, t) ==
  IF i > n THEN s ELSE StartWorkers(ProcessQueue(s, i, t), i + 1, n, t)

(***************************************************************************)
(* What runs when a result comes back to ModelIntegration.generateObject:  *)
(* the budgets are updated from the response headers, the usage is         *)
(* recorded as a live request, the result is returned and the enricher     *)
(* goes on with the next request of the endpoint or the next endpoint.     *)
(***************************************************************************)
RecordResult(s, w, t) ==
  LET r == s.wk[w].res
      m == ModelName(s.wk[w].stage)
  IN [s EXCEPT !.budgets = updateRateLimitBudgets(@, m, r.responseHeaders, t),
               !.usage = updateUsage(@, m, r.promptTokens, r.completionTokens,
                                     FALSE, r.cacheCreationInputTokens,
                                     r.cacheReadInputTokens),
               !.succeededKeys = @ \cup {KeyOf(s, w)}]

\* wrapGenerate after doGenerate() returned: cacheManager.set, which may throw.
StoreResult(s, w, res) ==
  IF ~s.cacheEnabled
  THEN [s EXCEPT !.wk[w].pc = "respond", !.wk[w].res = res]
  ELSE IF s.store # "ok"
       THEN [s EXCEPT !.wk[w].pc = "caught", !.wk[w].err = CacheIOError]
       ELSE [s EXCEPT !.cache = CacheSet(@, KeyOf(s, w), res),
                      !.wk[w].pc = "respond",
                      !.wk[w].res = res]

\* (mutant: the middleware stores what doGenerate() threw)
DoGenerateThrowsAndIsCached(s, w, e) ==
  [s EXCEPT !.cache = IF s.cacheEnabled /\ s.store = "ok"
                      THEN CacheSet(@, KeyOf(s, w), e) ELSE @,
            !.wk[w].pc = "caught",
            !.wk[w].err = e,
            !.wk[w].rejections = IF IsRateLimitError(e) THEN @ + 1 ELSE @]

\* await doGenerate() throws: wrapGenerate is left before cacheManager.set.
DoGenerateThrows(s, w, e) ==
  [s EXCEPT !.wk[w].pc = "caught",
            !.wk[w].err = e,
            !.wk[w].rejections = IF IsRateLimitError(e) THEN @ + 1 ELSE @]

\* Where the error of a request lands: enhanceEndpoint's catch for the
\* description (process.exit(1)), the fallback of enhanceParameters and
\* enhanceResponses for theirs.
OnRejection(s, w, t) ==
  IF s.wk[w].stage = "description"
  THEN [s EXCEPT !.exited = TRUE]
  ELSE NextStage(s, w, t)

\* The catch block of generateObject.
CatchBlock(s, w, jitter, t) ==
  LET e == s.wk[w].err IN
  IF IsRateLimitError(e)
  THEN LET h == handleRateLimit(s.usage, s.budgets, e, s.wk[w].retryAttempt,
                                s.ceiling, ModelName(s.wk[w].stage), jitter, t)
       IN IF h.thrown
          THEN OnRejection([s EXCEPT !.usage = h.usage,
                                     !.wk[w].pc = "rejected",
                                     !.wk[w].err = RetriesExhausted], w, t)
          ELSE [s EXCEPT !.usage = h.usage,
                         !.budgets = h.budgets,
                         !.wk[w].pc = "backoff",
                         !.wk[w].err = NoError,
                         !.wk[w].retryAttempt = @ + 1,
                         !.wk[w].wakeAt = t + h.delayMs]
  ELSE OnRejection([s EXCEPT !.wk[w].pc = "rejected"], w, t)

(***************************************************************************)
(* Init: the process after new SQLiteCacheManager() and new                *)
(* ModelIntegration(options).  Without the middleware the table is neither *)
(* read nor written, so one table stands for all.                          *)
(***************************************************************************)
Constructed ==
  /\ cacheEnabled \in BOOLEAN
  /\ store \in IF cacheEnabled THEN {"ok", "readonly", "broken"} ELSE {"ok"}
  /\ rateLimitBudgets = [m \in Models |-> createUninitializedBudget(0)]
  /\ usage = InitialUsage
  /\ cache \in IF cacheEnabled THEN {EmptyCache, WarmCache} ELSE {EmptyCache}
  /\ cacheAtStart = cache
  /\ now = 0
  /\ started = FALSE
  /\ returned = FALSE
  /\ exited = FALSE
  /\ concurrency = 0
  /\ endpoints = <<>>
  /\ queue = <<>>
  /\ inProgress = {}
  /\ completed = 0
  /\ results = <<>>
  /\ wk = [w \in Workers |-> IdleWorker("unstarted")]
  /\ claimed = [t \in Tasks |-> 0]
  /\ succeededKeys = {}
  /\ call = NoCall
  /\ written = [k \in Keys |-> NoValue]
  /\ window = [m \in Models |-> NoWindow]

\* options.maxRateLimitRetries: small ceilings, so that a request exhausts them.
Init == Constructed /\ maxRateLimitRetries \in 0..MaxRetryCeiling

\* (mutant: the preemptive sleep is a busy wait that holds the event loop)
RunningUnlessAsleep == started /\ ~exited /\ \A v \in Workers : wk[v].pc # "sleep"

Running == started /\ ~exited

\* Node runs the timers in the order in which they fall due.
TimerDue(w) ==
  \A v \in Workers :
    wk[v].pc \in {"sleep", "backoff"} => wk[w].wakeAt <= wk[v].wakeAt

\* (mutant: Promise.race in the place of Promise.all)
AnySettled(k) == \E w \in 1..k : wk[w].pc = "finished"

\* await Promise.all(processingPromises)
AllSettled(k) == \A w \in 1..k : wk[w].pc = "finished"

\* What no action but Start changes.
Fixed == <<cacheEnabled, maxRateLimitRetries, store, cacheAtStart, started,
           concurrency, call, written, window>>

(***************************************************************************)
(* processEndpointsWithConcurrency(endpoints, concurrency), to its await:  *)
(* every processQueue() it starts runs to its own first suspension.        *)
(***************************************************************************)
Start(contents, c) ==
  /\ ~started
  /\ started' = TRUE
  /\ concurrency' = c
  /\ LET n == Len(contents)
         s0 == [Cur EXCEPT !.endpoints = contents,
                           !.queue = [i \in 1..n |-> i]]
     IN Commit(StartWorkers(s0, 1, WorkersToStart(c, n), now))
  /\ UNCHANGED <<cacheEnabled, maxRateLimitRetries, store, cacheAtStart, now,
                 returned, call, written, window>>

\* (mutant: the throttle consulted again after the sleep)
AfterSleepCheckAgain(s, w, t) == LoopTop(s, w, t)

\* After await sleep(waitTimeMs): the try block, the SDK's generateObject.
AfterSleep(s, w, t) == SdkGenerateObject(s, w)

\* await sleep(waitTimeMs) is over: the call is made, with no second check.
WakeFromThrottle(w) ==
  /\ Running
  /\ wk[w].pc = "sleep"
  /\ TimerDue(w)
  /\ now' = Max(now, wk[w].wakeAt)
  /\ Commit(AfterSleep([Cur EXCEPT !.wk[w].wakeAt = 0], w, now'))
  /\ UNCHANGED <<Fixed, returned>>

\* The service answers the call: the middleware stores the result.
ServiceAnswers(w) ==
  /\ Running
  /\ wk[w].pc = "inflight"
  /\ \E res \in SuccessResults(now) : Commit(StoreResult(Cur, w, res))
  /\ UNCHANGED <<Fixed, now, returned>>

\* The service rejects the call, or the call fails.
ServiceFails(w) ==
  /\ Running
  /\ wk[w].pc = "inflight"
  /\ \E e \in ServiceErrors(now) : Commit(DoGenerateThrows(Cur, w, e))
  /\ UNCHANGED <<Fixed, now, returned>>

\* The result reaches generateObject, which records it and returns it.
Respond(w) ==
  /\ Running
  /\ wk[w].pc = "respond"
  /\ Commit(NextStage(RecordResult(Cur, w, now), w, now))
  /\ UNCHANGED <<Fixed, now, returned>>

\* The error reaches the catch block of generateObject.
Catch(w) ==
  /\ Running
  /\ wk[w].pc = "caught"
  /\ \E jitter \in Jitters : Commit(CatchBlock(Cur, w, jitter, now))
  /\ UNCHANGED <<Fixed, now, returned>>

\* await sleep(waitTime) is over: continue, the next turn of the loop.
WakeFromBackoff(w) ==
  /\ Running
  /\ wk[w].pc = "backoff"
  /\ TimerDue(w)
  /\ now' = Max(now, wk[w].wakeAt)
  /\ Commit(LoopTop([Cur EXCEPT !.wk[w].wakeAt = 0], w, now'))
  /\ UNCHANGED <<Fixed, returned>>

\* Promise.all resolved: processEndpointsWithConcurrency returns results.
DispatcherReturn ==
  /\ Running
  /\ ~returned
  /\ AllSettled(WorkersToStart(concurrency, Len(endpoints)))
  /\ returned' = TRUE
  /\ UNCHANGED <<Fixed, rateLimitBudgets, usage, cache, now, exited, endpoints,
                 queue, inProgress, completed, results, wk, claimed,
                 succeededKeys>>

EndpointLists == UNION {[1..n -> Contents] : n \in 0..MaxTasks}

Next ==
  \/ \E contents \in EndpointLists, c \in (-1)..MaxConcurrency \cup {NaN} :
       Start(contents, c)
  \/ \E w \in Workers : WakeFromThrottle(w)
  \/ \E w \in Workers : ServiceAnswers(w)
  \/ \E w \in Workers : ServiceFails(w)
  \/ \E w \in Workers : Respond(w)
  \/ \E w \in Workers : Catch(w)
  \/ \E w \in Workers : WakeFromBackoff(w)
  \/ DispatcherReturn

Spec == Init /\ [][Next]_vars

(***************************************************************************)
(* The program under its scheduling: the event loop runs every continuation*)
(* that is ready, every call to the service returns (with a result or an   *)
(* error) and every timer fires.  The run: two endpoints without           *)
(* parameters or responses (one request each), two workers, no cache, and  *)
(* a ceiling that lets a request meet the throttle after a backoff.        *)
(***************************************************************************)
WorkerStep(w) ==
  \/ WakeFromThrottle(w)
  \/ ServiceAnswers(w)
  \/ ServiceFails(w)
  \/ Respond(w)
  \/ Catch(w)
  \/ WakeFromBackoff(w)

Fairness ==
  /\ \A w \in Workers : WF_vars(WorkerStep(w))
  /\ WF_vars(DispatcherReturn)

InitLive ==
  Constructed /\ ~cacheEnabled /\ maxRateLimitRetries = MaxRetryCeiling + 1

NextLive ==
  \/ \E contents \in [1..MaxTasks -> {NumContents}] :
       Start(contents, MaxConcurrency)
  \/ \E w \in Workers : WorkerStep(w)
  \/ DispatcherReturn

SpecLive == InitLive /\ [][NextLive]_vars /\ Fairness

(***************************************************************************)
(* The throttle on its own: checkRateLimitBudget and updateRateLimitBudgets*)
(* are synchronous methods, so whatever the workers do, the budget table   *)
(* sees a sequence of whole calls, at times that do not decrease.  Here    *)
(* they are called in every order, with every argument of a small set.     *)
(***************************************************************************)
MaxSteps == 4   \* calls and clock ticks that are followed

Ticks == {5000, 60000}
Estimates == {[in |-> 100, out |-> 100], [in |-> 1440, out |-> 800]}

\* Headers of a response: every category present.  ExampleHeaders leaves no
\* request and plenty of tokens; StaggeredHeaders has three different reset
\* times, one of them beyond the cap of the wait.
ExampleHeaders(t) ==
  SomeHeaders([x \in {"requests-limit"} |-> 50]
    @@ [x \in {"requests-remaining"} |-> 0]
    @@ [x \in {"input-tokens-limit", "input-tokens-remaining"} |-> 30000]
    @@ [x \in {"output-tokens-limit", "output-tokens-remaining"} |-> 10000]
    @@ [x \in {"requests-reset", "input-tokens-reset", "output-tokens-reset"}
          |-> t + 5000])

StaggeredHeaders(t) ==
  SomeHeaders([x \in {"requests-limit"} |-> 50]
    @@ [x \in {"requests-remaining"} |-> 2]
    @@ [x \in {"requests-reset"} |-> t + 5000]
    @@ [x \in {"input-tokens-limit"} |-> 30000]
    @@ [x \in {"input-tokens-remaining"} |-> 1500]
    @@ [x \in {"input-tokens-reset"} |-> t + 10000]
    @@ [x \in {"output-tokens-limit"} |-> 10000]
    @@ [x \in {"output-tokens-remaining"} |-> 150]
    @@ [x \in {"output-tokens-reset"} |-> t + 120000])

\* Headers without any rate-limit field.
PlainHeaders == SomeHeaders([x \in {"retry-after"} |-> 1])

\* Headers with half of the requests category, and the input tokens without
\* their reset time.
PartialHeaders ==
  SomeHeaders([x \in {"requests-limit"} |-> 50]
    @@ [x \in {"input-tokens-limit"} |-> 30000]
    @@ [x \in {"input-tokens-remaining"} |-> 1500])

BudgetHeaders(t) ==
  {NoHeaders, ExampleHeaders(t), StaggeredHeaders(t), TightHeaders(t),
   RejectHeaders(t), PlainHeaders, PartialHeaders}

\* Every category of the headers carries its limit and its remaining value.
Authoritative(hdr) ==
  /\ hdr.present
  /\ \A f \in {"requests-limit", "requests-remaining", "requests-reset",
               "input-tokens-limit", "input-tokens-remaining",
               "input-tokens-reset", "output-tokens-limit",
               "output-tokens-remaining", "output-tokens-reset"} : Has(hdr.h, f)

Categories == {"requests", "inputTokens", "outputTokens"}

\* What does not belong to the throttle, the ledger or the cache.
Dispatch == <<cacheEnabled, maxRateLimitRetries, store, cacheAtStart, started,
              returned, exited, concurrency, endpoints, queue, inProgress,
              completed, results, wk, claimed, succeededKeys>>

\* The window history of one category over a check: a window that has expired
\* (resetTime <= now) is replaced by a new one that starts at the limit; an
\* admitted call uses its estimate.
WindowAfterCheck(win, before, admitted, amount, t) ==
  LET base == IF before.resetTime <= t THEN Opened(before.limit) ELSE win
  IN IF admitted THEN [base EXCEPT !.used = @ + amount] ELSE base

\* ... and over an update: values taken from the headers start a window.
CategoryFields ==
  [requests |-> <<"requests-limit", "requests-remaining">>,
   inputTokens |-> <<"input-tokens-limit", "input-tokens-remaining">>,
   outputTokens |-> <<"output-tokens-limit", "output-tokens-remaining">>]

WindowAfterUpdate(win, hdr, c, after) ==
  IF hdr.present /\ Has(hdr.h, CategoryFields[c][1])
                 /\ Has(hdr.h, CategoryFields[c][2])
  THEN Opened(after.remaining) ELSE win

CheckBudget(m, estIn, estOut) ==
  LET r == checkRateLimitBudget(rateLimitBudgets, m, estIn, estOut, now)
      b == rateLimitBudgets[m]
      admitted == ~r.shouldWait
  IN /\ call.n < MaxSteps
     /\ rateLimitBudgets' = r.budgets
     /\ call' = [op |-> "checkRateLimitBudget", n |-> call.n + 1, modelName |-> m,
                 estIn |-> estIn, estOut |-> estOut, t |-> now,
                 before |-> rateLimitBudgets, shouldWait |-> r.shouldWait,
                 waitTimeMs |-> r.waitTimeMs, reason |-> r.reason]
     /\ window' =
          IF ~b.initialized THEN window
          ELSE [window EXCEPT ![m] =
                 [requests |->
                    WindowAfterCheck(@.requests, b.requests, admitted, 1, now),
                  inputTokens |->
                    WindowAfterCheck(@.inputTokens, b.inputTokens, admitted,
                                     estIn, now),
                  outputTokens |->
                    WindowAfterCheck(@.outputTokens, b.outputTokens, admitted,
                                     estOut, now)]]
     /\ UNCHANGED <<Dispatch, usage, cache, now, written>>

UpdateBudget(m, hdr) ==
  LET nb == updateRateLimitBudgets(rateLimitBudgets, m, hdr, now)
  IN /\ call.n < MaxSteps
     /\ rateLimitBudgets' = nb
     /\ call' = [op |-> "updateRateLimitBudgets", n |-> call.n + 1,
                 modelName |-> m, hdr |-> hdr,
                 t |-> now, before |-> rateLimitBudgets]
     /\ window' =
          [window EXCEPT ![m] =
             [c \in Categories |-> WindowAfterUpdate(@[c], hdr, c, nb[m][c])]]
     /\ UNCHANGED <<Dispatch, usage, cache, now, written>>

Tick(d) ==
  /\ call.n < MaxSteps
  /\ now' = now + d
  /\ call' = [call EXCEPT !.n = @ + 1]
  /\ UNCHANGED <<Dispatch, rateLimitBudgets, usage, cache, written, window>>

InitBudget == Init /\ ~cacheEnabled /\ maxRateLimitRetries = 0

NextBudget ==
  \/ \E m \in Models, est \in Estimates : CheckBudget(m, est.in, est.out)
  \/ \E m \in Models, hdr \in BudgetHeaders(now) : UpdateBudget(m, hdr)
  \/ \E d \in Ticks : Tick(d)

SpecBudget == InitBudget /\ [][NextBudget]_vars

(***************************************************************************)
(* The ledger on its own: updateUsage called for every model in every      *)
(* order, and the two counters that handleRateLimit and generateObject     *)
(* increment.                                                              *)
(***************************************************************************)
UnknownModel == "claude-unknown"

TokenCounts ==
  {[prompt |-> 1200, completion |-> 300, cacheCreation |-> 100, cacheRead |-> 50],
   [prompt |-> 1000, completion |-> 0, cacheCreation |-> 0, cacheRead |-> 0]}

Throttle == <<rateLimitBudgets, now, window>>

RecordUsage(m, tk, fromCache) ==
  /\ call.n < MaxSteps
  /\ usage' = updateUsage(usage, m, tk.prompt, tk.completion, fromCache,
                          tk.cacheCreation, tk.cacheRead)
  /\ call' = [op |-> "updateUsage", n |-> call.n + 1, modelName |-> m,
              tokens |-> tk, fromCache |-> fromCache, before |-> usage]
  /\ UNCHANGED <<Dispatch, Throttle, cache, written>>

\* this.usage.rateLimitRetries = (this.usage.rateLimitRetries || 0) + 1
CountRetry ==
  /\ call.n < MaxSteps
  /\ usage' = [usage EXCEPT !.rateLimitRetries = @ + 1]
  /\ call' = [op |-> "handleRateLimit", n |-> call.n + 1, before |-> usage]
  /\ UNCHANGED <<Dispatch, Throttle, cache, written>>

\* this.usage.preemptiveDelays = (this.usage.preemptiveDelays || 0) + 1
CountDelay ==
  /\ call.n < MaxSteps
  /\ usage' = [usage EXCEPT !.preemptiveDelays = @ + 1]
  /\ call' = [op |-> "preemptiveDelay", n |-> call.n + 1, before |-> usage]
  /\ UNCHANGED <<Dispatch, Throttle, cache, written>>

NextLedger ==
  \/ \E m \in Models \cup {UnknownModel}, tk \in TokenCounts,
        fromCache \in BOOLEAN : RecordUsage(m, tk, fromCache)
  \/ CountRetry
  \/ CountDelay

SpecLedger == InitBudget /\ [][NextLedger]_vars

(***************************************************************************)
(* The cache manager on its own: get, set and clear in every order, and    *)
(* processes that end and start on the same database file.                 *)
(***************************************************************************)
UnitKeys == {CacheKey("description", 1), CacheKey("description", 2)}
UnitValues == {[a |-> 1], [a |-> 2]}

Get(k) ==
  /\ call.n < MaxSteps
  /\ call' = [op |-> "get", n |-> call.n + 1, prev |-> call.op, key |-> k,
              result |-> CacheGet(cache, k)]
  /\ UNCHANGED <<Dispatch, Throttle, usage, cache, written>>

Set(k, v) ==
  /\ call.n < MaxSteps
  /\ cache' = CacheSet(cache, k, v)
  /\ written' = [written EXCEPT ![k] = v]
  /\ call' = [op |-> "set", n |-> call.n + 1, prev |-> call.op, key |-> k,
              value |-> v]
  /\ UNCHANGED <<Dispatch, Throttle, usage>>

Clear ==
  /\ call.n < MaxSteps
  /\ cache' = CacheClear(cache)
  /\ written' = [k \in Keys |-> NoValue]
  /\ call' = [op |-> "clear", n |-> call.n + 1, prev |-> call.op]
  /\ UNCHANGED <<Dispatch, Throttle, usage>>

\* The process ends; the next one constructs its SQLiteCacheManager.
Restart ==
  /\ call.n < MaxSteps
  /\ cache' = initDatabase(cache)
  /\ call' = [op |-> "restart", n |-> call.n + 1, prev |-> call.op]
  /\ UNCHANGED <<Dispatch, Throttle, usage, written>>

InitCache == Init /\ cacheEnabled /\ maxRateLimitRetries = 0 /\ store = "ok"
                  /\ cache = EmptyCache

NextCache ==
  \/ \E k \in UnitKeys : Get(k)
  \/ \E k \in UnitKeys, v \in UnitValues : Set(k, v)
  \/ Clear
  \/ Restart

SpecCache == InitCache /\ [][NextCache]_vars

(***************************************************************************)
(* handleRateLimit on its own: called with every rate-limit rejection, at  *)
(* every attempt number generateObject can pass (0..ceiling), under the    *)
(* ceilings the CLI constructs ModelIntegration with.                      *)
(***************************************************************************)
MaxCliConcurrency == 5  \* --concurrency

\* Math.max(5, Math.min(10, opts.concurrency * 2))
CliCeilings == {Max(5, Min(10, c * 2)) : c \in 1..MaxCliConcurrency}

BackoffJitters == {0, 1000}  \* Math.random() * 1000, in whole ms

\* A 429 answer with a longer hint: retry-after 30 s.
LongRejectHeaders(t) ==
  SomeHeaders([h \in {"requests-limit", "requests-remaining", "requests-reset",
                      "retry-after"} |->
     CASE h = "requests-limit" -> 50
       [] h = "requests-remaining" -> 0
       [] h = "retry-after" -> 30
       [] OTHER -> t + 30000])

\* A 429 answer with the rate-limit headers but no retry-after.
ExhaustedHeaders(t) ==
  SomeHeaders([h \in {"requests-limit", "requests-remaining", "requests-reset"} |->
     CASE h = "requests-limit" -> 50
       [] h = "requests-remaining" -> 0
       [] OTHER -> t + 1000])

\* The errors that generateObject hands to handleRateLimit.
RateLimitErrors(t) ==
  {ErrorRec("429 with retry-after", TRUE, TRUE, TRUE, FALSE, RejectHeaders(t)),
   ErrorRec("429 with retry-after 30", TRUE, TRUE, TRUE, FALSE,
            LongRejectHeaders(t)),
   ErrorRec("429 without retry-after", TRUE, TRUE, TRUE, FALSE,
            ExhaustedHeaders(t)),
   ErrorRec("rate limit, no headers", TRUE, TRUE, FALSE, TRUE, NoHeaders)}

HandleRateLimit(e, retryAttempt, m, jitter) ==
  LET r == handleRateLimit(usage, rateLimitBudgets, e, retryAttempt,
                           maxRateLimitRetries, m, jitter, now)
  IN /\ call.n < MaxSteps
     /\ usage' = r.usage
     /\ rateLimitBudgets' = r.budgets
     /\ call' = [op |-> "handleRateLimit", n |-> call.n + 1, modelName |-> m,
                 error |-> e, retryAttempt |-> retryAttempt, jitter |-> jitter,
                 t |-> now, before |-> rateLimitBudgets,
                 thrown |-> r.thrown, delayMs |-> r.delayMs]
     /\ UNCHANGED <<Dispatch, cache, now, written, window>>

InitBackoff == Constructed /\ ~cacheEnabled /\ maxRateLimitRetries \in CliCeilings

NextBackoff ==
  \E e \in RateLimitErrors(now), a \in 0..maxRateLimitRetries, m \in Models,
     jitter \in BackoffJitters :
    HandleRateLimit(e, a, m, jitter)

SpecBackoff == InitBackoff /\ [][NextBackoff]_vars

(***************************************************************************)
(* Properties.                                                             *)
(***************************************************************************)
Holding(w) == wk[w].task # 0
MyKey(w) == CacheKey(wk[w].stage, endpoints[wk[w].task])

\* C1: with caching enabled, a request whose key is already in the cache (here:
\* was in it when the process started) bypasses the throttle and the retry
\* controller: it takes no preemptive delay, its throttle check reserves no
\* budget, and it meets no rate-limit rejection.
C1_CacheHitBypassesThrottle ==
  \A w \in Workers :
    (cacheEnabled /\ store = "ok" /\ Holding(w) /\ CacheHit(cacheAtStart, MyKey(w)))
      => /\ wk[w].pc # "sleep"
         /\ ~wk[w].reserved
         /\ wk[w].rejections = 0

\* C2: the failure of a task is recorded as its terminal outcome (the task
\* leaves the in-progress set) and ends neither its siblings nor the
\* dispatcher: the process does not exit.
C2_TaskFailureIsRecorded ==
  \A w \in Workers :
    wk[w].pc = "rejected" => (~exited /\ wk[w].task \notin inProgress)

C5_ClaimedOnce ==
  /\ \A t \in Tasks : claimed[t] <= 1
  /\ \A v, w \in Workers : (v # w /\ Holding(v)) => wk[v].task # wk[w].task
  /\ \A i, j \in 1..Len(results) : i # j => results[i] # results[j]
  /\ (returned /\ concurrency >= 1)
       => \A t \in 1..Len(endpoints) : claimed[t] = 1

C5_Witness ==
  /\ returned
  /\ concurrency = 2
  /\ Len(endpoints) = 2
  /\ \A t \in 1..2 : claimed[t] = 1

\* C6: when the dispatcher returns (C >= 1) every endpoint is terminal: the
\* completed count is N, nothing is in progress and the queue is empty.
C6_ReturnsWhenAllTerminal ==
  (returned /\ concurrency >= 1)
    => /\ completed = Len(endpoints)
       /\ inProgress = {}
       /\ queue = <<>>

C6_Witness ==
  /\ returned
  /\ concurrency = 1
  /\ Len(endpoints) = 2
  /\ completed = 2

\* C7: with caching enabled, a request that begins after a request with the
\* same key returned a result issues no call to the service: the row is in the
\* table and the request is answered from it.
C7_ServedFromCacheAfterSuccess ==
  \A w \in Workers :
    (cacheEnabled /\ Holding(w) /\ wk[w].afterSuccess)
      => /\ wk[w].calls = 0
         /\ wk[w].pc \in {"sleep", "respond"}
         /\ wk[w].pc = "respond" => wk[w].fromCache
         /\ CacheHit(cache, MyKey(w))

C7_Witness ==
  \E w \in Workers :
    /\ cacheEnabled
    /\ cacheAtStart = EmptyCache
    /\ wk[w].afterSuccess
    /\ wk[w].pc = "respond"
    /\ wk[w].fromCache

\* C8: with caching enabled and a cache that was empty, two workers never both
\* miss and both have a live call in flight for the same key.
C8_NoDuplicateLiveCall ==
  (cacheEnabled /\ cacheAtStart = EmptyCache)
    => \A v, w \in Workers :
         (v # w /\ wk[v].pc = "inflight" /\ wk[w].pc = "inflight")
           => MyKey(v) # MyKey(w)

\* C9: when the error in the catch block is not a rate-limit error, the step
\* that handles it ends the request (the error goes to the caller: the process
\* exits with it, or the worker is past this request), leaves the retry
\* counter alone and starts no backoff, whatever retryAttempt is.
C9_Ended(w) ==
  \/ exited' /\ wk'[w].pc = "rejected" /\ wk'[w].err = wk[w].err
  \/ ~exited' /\ wk'[w].pc = "finished"
  \/ ~exited' /\ <<wk'[w].task, wk'[w].stage>> # <<wk[w].task, wk[w].stage>>

C9_NonRateLimitPropagates ==
  [][\A w \in Workers :
       (wk[w].pc = "caught" /\ ~(wk[w].err.retryError /\ wk[w].err.apiCallError
                                 /\ (wk[w].err.has429 \/ wk[w].err.hasRateLimit))
        /\ wk'[w] # wk[w])
         => /\ usage'.rateLimitRetries = usage.rateLimitRetries
            /\ wk'[w].pc # "backoff"
            /\ C9_Ended(w)]_vars

C9_Witness ==
  \E w \in Workers :
    /\ exited
    /\ wk[w].pc = "rejected"
    /\ wk[w].err.name = "500 after the SDK's retry"
    /\ wk[w].retryAttempt = 1
    /\ usage.rateLimitRetries = 1

\* C10: an I/O failure of the cache store is never the error a request fails
\* with.
C10_CacheErrorNotPropagated ==
  \A w \in Workers : wk[w].pc = "rejected" => wk[w].err # CacheIOError

(***************************************************************************)
(* The throttle on its own (SpecBudget).  After a call, and until the next,*)
(* call.before is the budget table the call found and rateLimitBudgets the *)
(* one it left.                                                            *)
(***************************************************************************)
Checked == call.op = "checkRateLimitBudget"
Updated == call.op = "updateRateLimitBudgets"
Found == call.before[call.modelName]
Left == rateLimitBudgets[call.modelName]
Needed == [requests |-> 1, inputTokens |-> call.estIn, outputTokens |-> call.estOut]

\* The sub-window c the call found, after the rollover the claims describe.
Due(c) == Found[c].resetTime <= call.t
AfterRollover(c) ==
  IF Due(c) THEN [limit |-> Found[c].limit, remaining |-> Found[c].limit,
                  resetTime |-> call.t + 60000]
  ELSE Found[c]
Failing == {c \in Categories : AfterRollover(c).remaining < Needed[c]}
LongestWait ==
  CHOOSE d \in {AfterRollover(c).resetTime - call.t : c \in Failing} :
    \A c \in Failing : AfterRollover(c).resetTime - call.t <= d

\* C11: a check of a model whose budget is uninitialized answers
\* shouldWait = false and waitTimeMs = 0, for every estimate and at every
\* time, and takes nothing from the budget table.
C11_UninitializedNeverWaits ==
  (Checked /\ ~Found.initialized)
    => /\ ~call.shouldWait
       /\ call.waitTimeMs = 0
       /\ rateLimitBudgets = call.before

C11_Witness ==
  /\ Checked
  /\ ~Found.initialized
  /\ call.t >= 60000
  /\ call.estIn = 1440
  /\ ~call.shouldWait

\* C12: a check of an initialized budget answers shouldWait = true exactly
\* when, after the rollover, a constraint fails; then waitTimeMs is the longest
\* time to the reset of a failing constraint, capped at 60000, and lies in
\* 1..60000; otherwise it is 0.  With requests {50, 0, now + 5000} and tokens
\* enough: shouldWait, 5000, "Request limit reached".
C12_WaitExactlyWhenConstraintFails ==
  (Checked /\ Found.initialized)
    => /\ call.shouldWait <=> Failing # {}
       /\ Failing # {}
            => /\ call.waitTimeMs = Min(60000, LongestWait)
               /\ call.waitTimeMs > 0
               /\ call.waitTimeMs <= 60000
       /\ Failing = {} => call.waitTimeMs = 0
       /\ (/\ Found.requests = SubWindow(50, 0, call.t + 5000)
           /\ Failing = {"requests"})
            => /\ call.shouldWait
               /\ call.waitTimeMs = 5000
               /\ call.reason = "Request limit reached"

C12_Witness ==
  /\ Checked
  /\ Found.initialized
  /\ Found.requests = SubWindow(50, 0, call.t + 5000)
  /\ Found.inputTokens.remaining = 30000
  /\ call.shouldWait
  /\ call.waitTimeMs = 5000
  /\ call.reason = "Request limit reached"

\* C13: after an update from headers that carry the limit, the remaining value
\* and the reset time of every category, the budget of the model is those
\* values and is initialized, whatever was reserved from it before.
C13_UpdateOverridesReservations ==
  (Updated /\ Authoritative(call.hdr))
    => LET h == call.hdr.h IN
       Left = [requests |-> SubWindow(h["requests-limit"],
                                      h["requests-remaining"],
                                      h["requests-reset"]),
               inputTokens |-> SubWindow(h["input-tokens-limit"],
                                         h["input-tokens-remaining"],
                                         h["input-tokens-reset"]),
               outputTokens |-> SubWindow(h["output-tokens-limit"],
                                          h["output-tokens-remaining"],
                                          h["output-tokens-reset"]),
               initialized |-> TRUE]

C13_Witness ==
  /\ Updated
  /\ Authoritative(call.hdr)
  /\ Found.initialized
  /\ Found.requests.remaining = 0
  /\ Found.inputTokens.remaining = 560
  /\ Left.requests.remaining = 2
  /\ Left.inputTokens.remaining = 1500

\* C18: a check of an initialized budget in which no constraint fails answers
\* shouldWait = false and reserves in the same call: of each sub-window (as the
\* rollover left it) remaining is smaller by 1, by the input estimate and by
\* the output estimate, limit and reset time are as they were.
C18_AdmissionReserves ==
  (Checked /\ Found.initialized /\ Failing = {})
    => /\ ~call.shouldWait
       /\ \A c \in Categories :
            /\ Left[c].remaining = AfterRollover(c).remaining - Needed[c]
            /\ Left[c].limit = AfterRollover(c).limit
            /\ Left[c].resetTime = AfterRollover(c).resetTime
       /\ Left.initialized

C18_Witness ==
  /\ Checked
  /\ Found.initialized
  /\ ~call.shouldWait
  /\ call.estIn = 1440
  /\ Found.requests.remaining = 1
  /\ Left.requests.remaining = 0
  /\ Found.inputTokens.remaining = 2000
  /\ Left.inputTokens.remaining = 560
  /\ Left.outputTokens.remaining = 200

\* C19: in one window of a category of an initialized budget, with no update
\* from headers in between, the checks that were admitted used no more than
\* remaining was at the start of the window: at most that many calls for
\* requests, estimates of at most that sum for input and for output tokens.
C19_AdmittedWithinWindow ==
  \A m \in Models :
    rateLimitBudgets[m].initialized
      => \A c \in Categories : window[m][c].used <= window[m][c].start

C19_Witness ==
  /\ Checked
  /\ call.shouldWait
  /\ Found.requests.remaining = 0
  /\ window[call.modelName].requests = [start |-> 1, used |-> 1]
  /\ window[call.modelName].inputTokens.used = 1440

\* C20: a check of an initialized budget at time now resets each sub-window
\* whose resetTime <= now (remaining from the limit, resetTime = now + 60000),
\* each for itself, and leaves the others with their limit and reset time (and
\* untouched when the check answers shouldWait); a sub-window that was reset
\* and whose limit covers the estimate does not fail; afterwards every
\* resetTime is later than now.
C20_RolloverPerSubWindow ==
  (Checked /\ Found.initialized)
    => \A c \in Categories :
         /\ Due(c)
              => /\ Left[c].limit = Found[c].limit
                 /\ Left[c].resetTime = call.t + 60000
                 /\ Left[c].remaining =
                      IF call.shouldWait THEN Found[c].limit
                      ELSE Found[c].limit - Needed[c]
                 /\ Found[c].limit >= Needed[c] => c \notin Failing
         /\ ~Due(c)
              => /\ Left[c].limit = Found[c].limit
                 /\ Left[c].resetTime = Found[c].resetTime
                 /\ call.shouldWait => Left[c] = Found[c]
         /\ Left[c].resetTime > call.t

C20_Witness ==
  /\ Checked
  /\ Found.initialized
  /\ Found.requests.resetTime <= call.t
  /\ Found.requests.remaining = 0
  /\ ~call.shouldWait
  /\ Left.requests.remaining = 49
  /\ Left.requests.resetTime = call.t + 60000
  /\ Found.inputTokens.resetTime > call.t
  /\ Left.inputTokens.resetTime = Found.inputTokens.resetTime

(***************************************************************************)
(* The ledger on its own (SpecLedger).                                     *)
(***************************************************************************)
\* C14: in every state of the ledger, cost = costWithoutCaching -
\* cachingSavings (prices as integers, in units of 10^-8 dollar a token):
\* at the start, after updateUsage for each priced model and after updateUsage
\* for a model without a price.
C14_AccountingIdentity ==
  usage.cost = usage.costWithoutCaching - usage.cachingSavings

C14_Witness ==
  /\ call.op = "updateUsage"
  /\ call.modelName = UnknownModel
  /\ call.before.cost > 0
  /\ call.before.cachingSavings < 0
  /\ usage.liveRequests = 2
  /\ usage.cachedRequests = 1

\* Counters of the ledger that the spec lists as never decreasing.
Counters ==
  {"promptTokens", "completionTokens", "cachedRequests", "liveRequests",
   "cacheCreationTokens", "cacheReadTokens", "rateLimitRetries",
   "preemptiveDelays", "cost", "costWithoutCaching"}

\* C15: no call of updateUsage leaves a counter of the ledger smaller than it
\* found it, also when the calls alternate between the two priced models.
C15_CountersNeverDecrease ==
  call.op = "updateUsage" => \A f \in Counters : usage[f] >= call.before[f]

C17_FullUtilisation ==
  (started /\ concurrency >= 1 /\ queue # <<>>)
    => Cardinality({w \in Workers : Holding(w) /\ ~exited}) = concurrency

(***************************************************************************)
(* The throttle on its own (SpecBudget), continued.                        *)
(***************************************************************************)
\* C21: in every state, for every model and sub-window, 0 <= remaining <=
\* limit, whatever the order of checks (reservation, rollover) and of updates
\* from headers that satisfy 0 <= remaining <= limit themselves, also when an
\* estimate is larger than what remains.
C21_RemainingWithinLimit ==
  \A m \in Models, c \in Categories :
    /\ 0 <= rateLimitBudgets[m][c].remaining
    /\ rateLimitBudgets[m][c].remaining <= rateLimitBudgets[m][c].limit

C21_Witness ==
  /\ Checked
  /\ call.shouldWait
  /\ call.estIn = 1440
  /\ Found.inputTokens.remaining = 560
  /\ Found.requests.remaining = 0
  /\ Left = Found

\* C22: no check and no update of an initialized budget leaves the resetTime
\* of a sub-window earlier than it found it.
C22_ResetTimeOnlyForward ==
  ((Checked \/ Updated) /\ Found.initialized)
    => \A c \in Categories : Left[c].resetTime >= Found[c].resetTime

\* The reason that names one constraint.
CategoryReason ==
  [requests |-> "Request limit reached",
   inputTokens |-> "Input token limit reached",
   outputTokens |-> "Output token limit reached"]

\* C26: when a check answers shouldWait = true, reason names the tightest
\* constraint: one failing constraint whose reset is the farthest away, also
\* when two or three constraints fail.
C26_ReasonNamesTightest ==
  (Checked /\ call.shouldWait)
    => \E c \in Failing :
         /\ \A d \in Failing :
              AfterRollover(d).resetTime <= AfterRollover(c).resetTime
         /\ call.reason = CategoryReason[c]

(***************************************************************************)
(* handleRateLimit on its own (SpecBackoff).                               *)
(***************************************************************************)
Handled == call.op = "handleRateLimit"

Hint == call.error.responseHeaders.h["retry-after"]

\* The rejection carries a retry hint.
Hinted ==
  /\ call.error.responseHeaders.present
  /\ Has(call.error.responseHeaders.h, "retry-after")

\* The rejection carries rate-limit metadata: some anthropic-ratelimit-* field.
CarriesMetadata ==
  /\ call.error.responseHeaders.present
  /\ \E c \in Categories, i \in 1..2 :
       Has(call.error.responseHeaders.h, CategoryFields[c][i])

\* C23: after a rejection whose response carries rate-limit metadata, with or
\* without a retry hint and at the ceiling or below it, the budget of the model
\* is the one updateRateLimitBudgets makes of that metadata.
C23_RejectionUpdatesBudget ==
  (Handled /\ CarriesMetadata)
    => rateLimitBudgets
         = updateRateLimitBudgets(call.before, call.modelName,
                                  call.error.responseHeaders, call.t)

\* C24: for a rejection with a retry hint of h seconds, at any attempt below
\* the ceiling, the delay is h * 1000 + 500 ms whatever the attempt and the
\* jitter.
C24_HintPlusMargin ==
  (Handled /\ Hinted /\ call.retryAttempt < maxRateLimitRetries)
    => /\ ~call.thrown
       /\ call.delayMs = Hint * 1000 + 500

C24_Witness ==
  /\ Handled
  /\ Hinted
  /\ Hint = 30
  /\ call.retryAttempt = 4
  /\ call.jitter = 1000
  /\ call.delayMs = 30500

\* C25: for a rejection without a retry hint, at attempt a below the ceiling,
\* the delay d satisfies min(2^a * 1000, 60000) <= d <= 60000.
C25_BackoffCapped ==
  (Handled /\ ~Hinted /\ call.retryAttempt < maxRateLimitRetries)
    => /\ Min(Pow2(call.retryAttempt) * 1000, 60000) <= call.delayMs
       /\ call.delayMs <= 60000

(***************************************************************************)
(* The ledger in the program (Spec).                                       *)
(***************************************************************************)
\* The step is worker w's generateObject receiving its result.
Responds(w) == wk[w].pc = "respond" /\ wk'[w] # wk[w]

\* C27: a request served from the cache adds one to the cache-hit counter and
\* nothing to the live-call counter; a request answered by a call to the
\* service adds one to the live-call counter and nothing to the cache-hit
\* counter.
C27_CountersTellCacheFromLive ==
  [][\A w \in Workers :
       Responds(w)
         => IF wk[w].fromCache
            THEN /\ usage'.cachedRequests = usage.cachedRequests + 1
                 /\ usage'.liveRequests = usage.liveRequests
            ELSE /\ usage'.liveRequests = usage.liveRequests + 1
                 /\ usage'.cachedRequests = usage.cachedRequests]_vars

\* C28: with caching disabled, the step in which a call's result reaches
\* generateObject adds one live call and the tokens the service reported, and
\* no other step of any worker (a rejection, a failure, a sleep, a backoff)
\* changes the live-call counter or the token totals.
C28_EveryLiveCallRecordedOnce ==
  [][~cacheEnabled
       => /\ \A w \in Workers :
               Responds(w)
                 => /\ usage'.liveRequests = usage.liveRequests + 1
                    /\ usage'.promptTokens
                         = usage.promptTokens + wk[w].res.promptTokens
                    /\ usage'.completionTokens
                         = usage.completionTokens + wk[w].res.completionTokens
          /\ (\A w \in Workers : ~Responds(w))
               => /\ usage'.liveRequests = usage.liveRequests
                  /\ usage'.promptTokens = usage.promptTokens
                  /\ usage'.completionTokens = usage.completionTokens]_vars

\* Two workers, each past the description of its own endpoint, and one
\* rate-limit rejection on the way.
C28_Witness ==
  /\ ~cacheEnabled
  /\ concurrency = 2
  /\ \A w \in 1..2 : Holding(w) /\ wk[w].stage # "description"
  /\ wk[1].task # wk[2].task
  /\ usage.liveRequests = 2
  /\ usage.promptTokens = 2400
  /\ usage.completionTokens = 600
  /\ usage.rateLimitRetries >= 1

InRequest(w, task, stage) ==
  /\ wk[w].task = task
  /\ wk[w].stage = stage
  /\ wk[w].pc \in {"sleep", "inflight", "respond", "caught", "backoff"}

\* C30: every started request eventually ends, with its result returned or
\* its error thrown to its caller.
C30_RequestTerminates ==
  \A w \in Workers, task \in Tasks, stage \in Stages :
    InRequest(w, task, stage) ~> ~InRequest(w, task, stage)

(***************************************************************************)
(* The workers among themselves (SpecLive).                                *)
(***************************************************************************)
\* Worker v is suspended: in the preemptive sleep, in the backoff sleep or on
\* a pending call to the service.
Suspended(v) == wk[v].pc \in {"sleep", "backoff", "inflight"}

\* Worker w has a next step to take: a result or an error to handle, a call
\* that the service can answer, or the timer that falls due first.
HasNextStep(w) ==
  \/ wk[w].pc \in {"respond", "caught", "inflight"}
  \/ wk[w].pc \in {"sleep", "backoff"} /\ TimerDue(w)

Wakes(w) == wk[w].pc = "sleep" /\ wk'[w] # wk[w]

\* The step sends worker w to the preemptive sleep.
FallsAsleep(w) == wk'[w].pc = "sleep" /\ wk'[w] # wk[w]

\* C32: every call of a request has exactly one throttle consultation before
\* it (a worker has consulted once more than it has called exactly while it
\* sleeps); the step after the sleep issues the call, consults nothing and
\* leaves the budget as it is; the preemptive-delay counter grows by one for
\* each consultation that sends a worker to sleep and by nothing else.
C32_OneCheckPerAttempt ==
  [][/\ \A w \in Workers :
          /\ wk'[w].checks
               = wk'[w].attempts + (IF wk'[w].pc = "sleep" THEN 1 ELSE 0)
          /\ Wakes(w)
               => /\ rateLimitBudgets' = rateLimitBudgets
                  /\ usage'.preemptiveDelays = usage.preemptiveDelays
                  /\ wk'[w].checks = wk[w].checks
                  /\ wk'[w].attempts = wk[w].attempts + 1
     /\ usage'.preemptiveDelays
          = usage.preemptiveDelays
            + Cardinality({w \in Workers : FallsAsleep(w)})]_vars

\* A retry that was consulted for, slept for and then issued.
C32_Witness ==
  \E w \in Workers :
    /\ wk[w].pc = "inflight"
    /\ wk[w].retryAttempt = 1
    /\ wk[w].checks = 2
    /\ wk[w].attempts = 2
    /\ ~wk[w].reserved
    /\ rateLimitBudgets[ModelName(wk[w].stage)].initialized
    /\ usage.preemptiveDelays >= 1

(***************************************************************************)
(* The throttle on its own (SpecBudget): what a call leaves alone.         *)
(***************************************************************************)
\* C33: a check or an update for one model leaves every field of the budget
\* of every other model as it was, and the answer of a check is the answer it
\* would give if the other models had never been heard of.
C33_BudgetsIsolated ==
  (Checked \/ Updated)
    => /\ \A m \in Models \ {call.modelName} :
            rateLimitBudgets[m] = call.before[m]
       /\ Checked
            => LET alone == [m \in Models |->
                               IF m = call.modelName THEN Found
                               ELSE createUninitializedBudget(0)]
                   r == checkRateLimitBudget(alone, call.modelName, call.estIn,
                                             call.estOut, call.t)
               IN /\ call.shouldWait = r.shouldWait
                  /\ call.waitTimeMs = r.waitTimeMs

\* A check for one model is admitted while the other model's budget has no
\* request left.
C33_Witness ==
  /\ Checked
  /\ ~call.shouldWait
  /\ Found.initialized
  /\ \E m \in Models \ {call.modelName} :
       /\ rateLimitBudgets[m].initialized
       /\ rateLimitBudgets[m].requests.remaining = 0
       /\ rateLimitBudgets[m].requests.resetTime > call.t

CategoryReset ==
  [requests |-> "requests-reset", inputTokens |-> "input-tokens-reset",
   outputTokens |-> "output-tokens-reset"]

\* The headers of the update carry the limit and the remaining value of c.
Carried(c) ==
  /\ Has(call.hdr.h, CategoryFields[c][1])
  /\ Has(call.hdr.h, CategoryFields[c][2])

\* C34: an update with a header object overwrites the sub-windows of which it
\* carries both the limit and the remaining value (the reset time is the
\* header's, or a minute from now), leaves the others as they were, and sets
\* initialized; an update without a header object changes nothing.
C34_AbsentFieldsKeepSubWindow ==
  Updated
    => IF call.hdr.present
       THEN /\ Left.initialized
            /\ \A c \in Categories :
                 IF Carried(c)
                 THEN /\ Left[c].limit = call.hdr.h[CategoryFields[c][1]]
                      /\ Left[c].remaining = call.hdr.h[CategoryFields[c][2]]
                      /\ Left[c].resetTime
                           = IF Has(call.hdr.h, CategoryReset[c])
                             THEN call.hdr.h[CategoryReset[c]]
                             ELSE call.t + 60000
                 ELSE Left[c] = Found[c]
       ELSE Left = Found

\* Headers with half a category, over a budget that real headers had filled.
C34_Witness ==
  /\ Updated
  /\ call.hdr = PartialHeaders
  /\ Found.initialized
  /\ Found.requests.limit = 50
  /\ Found.requests.remaining = 0
  /\ Left.requests = Found.requests
  /\ Left.inputTokens.remaining = 1500
  /\ Left.outputTokens = Found.outputTokens

(***************************************************************************)
(* The retry counter in the program (Spec).                                *)
(***************************************************************************)
\* The step is worker w's catch block receiving a rate-limit rejection.
HandlesRejection(w) ==
  wk[w].pc = "caught" /\ IsRateLimitError(wk[w].err) /\ wk'[w] # wk[w]

\* C35: the retry counter grows by one in each step in which a rate-limit
\* rejection is received and in no other; a request that fails by exhaustion
\* has received maxRateLimitRetries + 1 rejections, and a request that
\* returns a result has received as many as it made retries.
C35_RetryCounterCountsRejections ==
  [][/\ usage'.rateLimitRetries
          = usage.rateLimitRetries
            + Cardinality({w \in Workers : HandlesRejection(w)})
     /\ \A w \in Workers :
          /\ (wk'[w].pc = "rejected" /\ wk'[w].err = RetriesExhausted)
               => wk'[w].rejections = maxRateLimitRetries + 1
          /\ Responds(w) => wk[w].rejections = wk[w].retryAttempt]_vars

C35_Witness ==
  \E w \in Workers :
    /\ wk[w].pc = "rejected"
    /\ wk[w].err = RetriesExhausted
    /\ maxRateLimitRetries = 1
    /\ wk[w].rejections = 2
    /\ concurrency = 1
    /\ usage.rateLimitRetries = 2

(***************************************************************************)
(* The dispatcher's progress (Spec).                                       *)
(***************************************************************************)
Range(f) == {f[i] : i \in DOMAIN f}

\* The endpoints that workers hold: claimed and not yet completed.
Held == {wk[w].task : w \in {v \in Workers : Holding(v)}}

\* C36: after every step, completed + the size of inProgress + the length of
\* the queue is the number of endpoints; inProgress is the set of endpoints
\* that workers hold, each claimed once, none in the queue or in the results;
\* and completed has not decreased.
C36_ProgressConsistent ==
  [][/\ completed' + Cardinality(inProgress') + Len(queue') = Len(endpoints')
     /\ inProgress' = Held'
     /\ \A t \in inProgress' :
          /\ claimed'[t] = 1
          /\ t \notin Range(queue')
          /\ t \notin Range(results')
     /\ completed' >= completed]_vars

C36_Witness ==
  /\ started /\ ~exited /\ ~returned
  /\ Len(endpoints) = 2
  /\ completed = 1
  /\ inProgress = {2}
  /\ queue = <<>>
  /\ \E w \in Workers : wk[w].task = 2 /\ wk[w].pc = "inflight"

\* C37: when the dispatcher has returned, the results hold each endpoint that
\* was claimed and completed once and nothing else, so that their number is
\* the completed count; they are in the order of completion.
C37_ResultsExactlyOnce ==
  returned
    => /\ Cardinality(Range(results)) = Len(results)
       /\ Range(results) = {t \in 1..Len(endpoints) : claimed[t] >= 1}
       /\ Len(results) = completed
       /\ inProgress = {}

\* Two endpoints that completed in the reverse of the order of submission.
C37_Witness ==
  /\ returned
  /\ concurrency = 2
  /\ results = <<2, 1>>

(***************************************************************************)
(* The cache in the program (Spec).                                        *)
(***************************************************************************)
\* C38: the table changes only in the step in which the service answers a
\* call with a result, and then by the row of that result under the key of the
\* request; a step in which a call is rejected or fails, an error is handled
\* or a retry is given up leaves the table as it is, and what a worker is
\* handed as a result is never an error.
C38_CacheWrittenOnSuccessOnly ==
  [][/\ cache' # cache
          => \E w \in Workers :
               /\ wk[w].pc = "inflight"
               /\ wk'[w].pc = "respond"
               /\ ~wk'[w].fromCache
               /\ wk'[w].res \in SuccessResults(now)
               /\ cache' = CacheSet(cache, MyKey(w), wk'[w].res)
     /\ \A w \in Workers :
          /\ (wk[w].pc = "inflight" /\ wk'[w].pc = "caught") => cache' = cache
          /\ (wk[w].pc = "caught" /\ wk'[w] # wk[w]) => cache' = cache
          /\ wk'[w].pc = "respond" => "promptTokens" \in DOMAIN wk'[w].res]_vars

\* A rejected call behind it, the request waits for its retry and the table
\* has no row for it.
C38_Witness ==
  \E w \in Workers :
    /\ cacheEnabled
    /\ store = "ok"
    /\ wk[w].pc = "backoff"
    /\ wk[w].rejections = 1
    /\ ~CacheHit(cache, MyKey(w))
    /\ cache = cacheAtStart

(***************************************************************************)
(* The dispatcher without workers (Spec).                                  *)
(***************************************************************************)
\* C39: with a concurrency that is zero, negative or NaN the dispatcher starts
\* no worker: no endpoint is claimed, no request is made, nothing is recorded,
\* the process does not exit, and when the dispatcher has returned its results
\* are empty and its completed count is zero, whatever the number of endpoints.
C39_NoWorkersWithoutConcurrency ==
  (started /\ (concurrency = NaN \/ concurrency <= 0))
    => /\ \A w \in Workers : wk[w] = IdleWorker("unstarted")
       /\ \A t \in Tasks : claimed[t] = 0
       /\ Len(queue) = Len(endpoints)
       /\ inProgress = {}
       /\ completed = 0
       /\ results = <<>>
       /\ usage = InitialUsage
       /\ ~exited

C39_Witness ==
  /\ returned
  /\ concurrency = NaN
  /\ Len(endpoints) = 2
  /\ Len(queue) = 2
  /\ results = <<>>
  /\ completed = 0

====
